---- MODULE Spec2Model ----
(***************************************************************************)
(* A model of the Gemini-Pro3-App-Demo repository: the PTT stock-forum     *)
(* scraper (src/server/index.ts), its sentiment classifiers                *)
(* (src/server/analyzer.ts) and the podcast services                       *)
(* (src/services/geminiService.ts).                                        *)
(*                                                                         *)
(* Texts are sequences of characters.  SANY accepts ASCII only inside      *)
(* strings, so each CJK character of the source is written by its pinyin:  *)
(*   duo=多 zuo=做 kan=看 mai3=買 jin=進 fei=飛 pen=噴                     *)
(*   kong=空 mai4=賣 chu=出 beng=崩 tao=逃                                 *)
(*   biao=標 di=的 bao=爆 tui=推 wen=文 tai=台 ji=積                       *)
(* nl is a line feed.  An LLM response text is a sequence of JSON tokens   *)
(* (see JSONParse); fence-json and fence are the Markdown code-fence       *)
(* markers, ws a run of whitespace.                                        *)
(***************************************************************************)
EXTENDS Integers, Sequences, FiniteSets, TLC

VARIABLES
    apiKey,      \* whether the process has an LLM credential (analyzer.ts:9, geminiService.ts:7)
    llmPc,       \* a classifier call: "idle", "awaiting" (the LLM call is in flight), "done"
    llmCall,     \* the entry point called and its arguments
    llmOut,      \* what the LLM call gave (a response or a thrown error)
    llmRet,      \* how the entry point completed: resolved with a value, or rejected
    route,       \* the request the server is handling: "none", "ptt-sentiment", "analyze-url"
    pc,          \* where the handler stands: the await it is suspended at, or "responded"
    res,         \* the response sent: its status and JSON body
    loopI,       \* ptt-sentiment: the page loop's counter i
    currentUrl,  \* ptt-sentiment: the listing page to fetch next
    html,        \* ptt-sentiment: the listing document being processed
    pagePosts,   \* ptt-sentiment: the candidates found on the current page
    postsToAnalyze, \* ptt-sentiment: the page's candidates kept for analysis
    cand,        \* ptt-sentiment: the position of p in postsToAnalyze
    fullContent, \* ptt-sentiment: the text of p's detail page
    posts,       \* ptt-sentiment: the result list
    reqBody,     \* analyze-url: the request body
    pageTitle,   \* analyze-url: the title extracted from the page
    net,         \* history: the external calls started (counters)
    forum,       \* the forum as this run has seen it: rows served, odd answers given
    epPc,        \* fetchRecentEpisodes: "idle", the await it is suspended at, or "done"
    feedUrl,     \* fetchRecentEpisodes: the feed URL the lookup gave
    tried,       \* fetchRecentEpisodes: the proxied URLs fetched so far, in order
    xmlText,     \* fetchRecentEpisodes: the text a proxy delivered
    episodes,    \* fetchRecentEpisodes: the list it resolved with
    fgPc,        \* fetchFearAndGreedIndex: "idle", "fetch" (awaiting the response), "done"
    fgOut,       \* fetchFearAndGreedIndex: what the fetch and its json() gave
    fgRet,       \* fetchFearAndGreedIndex: how it completed
    app,         \* App: the component's state (its useState values)
    pending,     \* App: the file reads and analyzePodcast calls not yet settled
    issued       \* App: how many of them the component has started

llmVars == <<llmPc, llmCall, llmOut, llmRet>>
pttVars == <<loopI, currentUrl, html, pagePosts, postsToAnalyze, cand, fullContent, posts>>
urlVars == <<reqBody, pageTitle>>
serverVars == <<route, pc, res, pttVars, urlVars, net, forum>>
feedVars == <<epPc, feedUrl, tried, xmlText, episodes>>
indexVars == <<fgPc, fgOut, fgRet>>
appVars == <<app, pending, issued>>
vars == <<apiKey, llmVars, serverVars, feedVars, indexVars, appVars>>

(***************************************************************************)
(* Strings                                                                 *)
(***************************************************************************)

\* String.prototype.includes: k occurs in s as a contiguous run.
Includes(s, k) ==
    \E i \in 0..(Len(s) - Len(k)) : SubSeq(s, i + 1, i + Len(k)) = k

\* One character of String.prototype.toLowerCase (the ASCII letters of the model).
LowerChar(c) ==
    CASE c = "E" -> "e"
      [] c = "P" -> "p"
      [] c = "R" -> "r"
      [] OTHER -> c

toLowerCase(s) == [i \in 1..Len(s) |-> LowerChar(s[i])]

(***************************************************************************)
(* JavaScript values and JSON.parse                                        *)
(***************************************************************************)

JSNull == [t |-> "null"]
JSNumber(n) == [t |-> "number", v |-> n]
\* An object is a record of its own properties; an absent property reads undefined.
JSObject(r) == [t |-> "object", f |-> r]

Undefined == "<undefined>"

HasOwn(v, key) == v.t = "object" /\ key \in DOMAIN v.f

\* v.key as JavaScript reads it from a non-null value.
Get(v, key) ==
    IF v.t = "object" /\ key \in DOMAIN v.f THEN v.f[key] ELSE Undefined

\* ToBoolean of a parsed JSON value.
Truthy(v) ==
    CASE v.t = "null" -> FALSE
      [] v.t = "number" -> v.v # 0
      [] OTHER -> TRUE

\* {...a, ...b}: b's properties override a's.
Spread(a, b) ==
    [k \in (DOMAIN a) \cup (DOMAIN b) |-> IF k \in DOMAIN b THEN b[k] ELSE a[k]]

\* The member tokens of a JSON object text: each is one "key": value pair.
FieldTokens ==
    { "sBull", "sBear", "sNeut", "sPos", "r1", "oOk", "oBad", "oNone", "tX",
      "eT", "sp", "co" }

\* The one-key object a member token stands for.
FieldObject(tok) ==
    CASE tok = "sBull" -> [sentiment |-> "Bullish"]
      [] tok = "sBear" -> [sentiment |-> "Bearish"]
      [] tok = "sNeut" -> [sentiment |-> "Neutral"]
      [] tok = "sPos" -> [sentiment |-> "Positive"]
      [] tok = "r1" -> [reason |-> "r1"]
      [] tok = "oOk" -> [opinions |-> << [type |-> "Bullish", content |-> "c1"],
                                         [type |-> "Bearish", content |-> "c2"] >>]
      [] tok = "oBad" -> [opinions |-> << [type |-> "Mixed", content |-> "c1"] >>]
      [] tok = "oNone" -> [opinions |-> << >>]
      [] tok = "tX" -> [title |-> << "llm-title" >>]
      [] tok = "eT" -> [episodeTitle |-> "EP1"]
      [] tok = "sp" -> [summaryPoints |-> << "p1", "p2", "p3" >>]
      [] tok = "co" -> [companies |-> << [name |-> "TSMC", sentiment |-> "BULLISH",
                                          reason |-> "r1"] >>]

\* The text is "{" members "}".
IsObjectText(text) ==
    /\ Len(text) >= 2
    /\ text[1] = "{"
    /\ text[Len(text)] = "}"
    /\ \A i \in 2..(Len(text) - 1) : text[i] \in FieldTokens

\* Whether JSON.parse(text) returns (it throws a SyntaxError otherwise).
JSONParses(text) ==
    text = << "null" >> \/ text = << "42" >> \/ IsObjectText(text)

RECURSIVE MembersObject(_, _)
\* The object of members text[2..n]; a repeated key keeps its last value.
MembersObject(text, n) ==
    IF n < 2 THEN [x \in {} |-> Undefined]
    ELSE Spread(MembersObject(text, n - 1), FieldObject(text[n]))

\* JSON.parse(text), for a text that parses.
JSONParse(text) ==
    CASE text = << "null" >> -> JSNull
      [] text = << "42" >> -> JSNumber(42)
      [] OTHER -> JSObject(MembersObject(text, Len(text) - 1))

(***************************************************************************)
(* The LLM capability: client.models.generateContent                       *)
(***************************************************************************)

\* The response texts the model draws from.
LLMTexts ==
    { << >>,                                   \* no text
      << "Sorry" >>,                           \* prose, not JSON
      << "{", "sBull", "r1" >>,                \* a truncated object
      << "null" >>,
      << "42" >>,
      << "{", "sBull", "r1", "}" >>,
      << "{", "sBear", "r1", "oOk", "}" >>,
      << "{", "sNeut", "r1", "oNone", "}" >>,
      << "{", "sPos", "r1", "oBad", "}" >>,    \* outside the requested enums
      << "{", "r1", "}" >>,                    \* sentiment missing
      << "{", "sBull", "r1", "oOk", "tX", "}" >>,
      << "{", "eT", "sp", "co", "}" >>,
      << "fence-json", "ws", "{", "eT", "sp", "co", "}", "ws", "fence" >> }

\* groundingMetadata.groundingChunks of the first candidate (none, or one web
\* chunk and one chunk of another kind).
LLMChunks ==
    { << >>,
      << [web |-> TRUE, title |-> "site", uri |-> "https://site"],
         [web |-> FALSE, title |-> "", uri |-> ""] >> }

LLMThrows == [kind |-> "throw", text |-> << >>, chunks |-> << >>]

LLMOutcomes ==
    {LLMThrows} \cup
    { [kind |-> "response", text |-> t, chunks |-> c] : t \in LLMTexts, c \in LLMChunks }

(***************************************************************************)
(* src/server/analyzer.ts                                                  *)
(***************************************************************************)

Sentiments == {"Bullish", "Bearish", "Neutral"}

BULLISH_KEYWORDS ==
    << <<"duo">>, <<"zuo", "duo">>, <<"kan", "duo">>, <<"mai3", "jin">>, <<"fei">>, <<"pen">> >>
BEARISH_KEYWORDS ==
    << <<"kong">>, <<"zuo", "kong">>, <<"kan", "kong">>, <<"mai4", "chu">>, <<"beng">>, <<"tao">> >>

\* The forEach of lines 188-189: one increment per keyword the text includes.
KeywordCount(keywords, text) ==
    Cardinality({ i \in 1..Len(keywords) : Includes(text, keywords[i]) })

analyzeSentimentKeyword(text) ==
    LET normalizedText == toLowerCase(text)
        bullishCount == KeywordCount(BULLISH_KEYWORDS, normalizedText)
        bearishCount == KeywordCount(BEARISH_KEYWORDS, normalizedText)
    IN  IF bullishCount > bearishCount
          THEN [sentiment |-> "Bullish", reason |-> "keyword: bullish"]
        ELSE IF bearishCount > bullishCount
          THEN [sentiment |-> "Bearish", reason |-> "keyword: bearish"]
        ELSE [sentiment |-> "Neutral", reason |-> "keyword: neutral"]

\* lines 76-85 and 159-168: result stays null unless the text is non-empty and parses.
ParsedOrNull(text) ==
    IF text # << >> /\ JSONParses(text) THEN JSONParse(text) ELSE JSNull

\* analyzeSentimentWithLLM without a client (lines 31-34).
LightNoClient(title, content) ==
    JSObject(analyzeSentimentKeyword(title \o << " " >> \o content))

\* A faulty variant of LightCatch: the keyword classifier reads the content too, as
\* it does without a client.
LightCatchWholeText(title, content) ==
    JSObject(analyzeSentimentKeyword(title \o << " " >> \o content))

\* analyzeSentimentWithLLM's catch block (lines 89-92).
LightCatch(title, content) ==
    JSObject(analyzeSentimentKeyword(title))

\* analyzeSentimentWithLLM's fallback for a falsy result (line 87).
LightUnparsed(title, content) ==
    JSObject([sentiment |-> "Neutral", reason |-> "cannot parse AI response"])

\* analyzeSentimentWithLLM from the completion of generateContent on (lines 58-92).
LightAfterCall(title, content, out) ==
    IF out.kind = "throw" THEN LightCatch(title, content)
    ELSE LET result == ParsedOrNull(out.text)
         IN  IF Truthy(result) THEN result ELSE LightUnparsed(title, content)

\* analyzeArticleWithLLM without a client (lines 96-98).
DeepNoClient ==
    JSObject([sentiment |-> "Neutral", reason |-> "No API Key", opinions |-> << >>])

\* analyzeArticleWithLLM's catch block (lines 172-175).
DeepCatch ==
    JSObject([sentiment |-> "Neutral", reason |-> "Analysis Error", opinions |-> << >>])

\* A faulty variant of DeepUnparsed: the null result is returned as it is.
DeepUnparsedNull == JSNull

\* analyzeArticleWithLLM's fallback for a falsy result (line 170).
DeepUnparsed ==
    JSObject([sentiment |-> "Neutral", reason |-> "cannot parse AI response",
              opinions |-> << >>])

\* analyzeArticleWithLLM from the completion of generateContent on (lines 130-175).
DeepAfterCall(out) ==
    IF out.kind = "throw" THEN DeepCatch
    ELSE LET result == ParsedOrNull(out.text)
         IN  IF Truthy(result) THEN result ELSE DeepUnparsed

(***************************************************************************)
(* src/services/geminiService.ts: analyzePodcast                           *)
(***************************************************************************)

IsSpace(tok) == tok = "ws"

RECURSIVE DropSpaces(_)
\* The text without its leading whitespace.
DropSpaces(text) ==
    IF text # << >> /\ IsSpace(Head(text)) THEN DropSpaces(Tail(text)) ELSE text

RECURSIVE StripFence(_, _)
\* text.replace(/<fence>\s*/g, ""): every fence token and the whitespace after it.
StripFence(text, fence) ==
    IF text = << >> THEN << >>
    ELSE IF Head(text) = fence THEN StripFence(DropSpaces(Tail(text)), fence)
    ELSE << Head(text) >> \o StripFence(Tail(text), fence)

\* String.prototype.indexOf / lastIndexOf of one token, 0-based, -1 when absent.
IndexOf(text, tok) ==
    IF \E i \in 1..Len(text) : text[i] = tok
      THEN (CHOOSE i \in 1..Len(text) :
              text[i] = tok /\ \A j \in 1..(i - 1) : text[j] # tok) - 1
      ELSE -1

LastIndexOf(text, tok) ==
    IF \E i \in 1..Len(text) : text[i] = tok
      THEN (CHOOSE i \in 1..Len(text) :
              text[i] = tok /\ \A j \in (i + 1)..Len(text) : text[j] # tok) - 1
      ELSE -1

\* String.prototype.substring(a, b), which swaps its arguments when a > b.
Substring(text, a, b) ==
    LET lo == IF a < b THEN a ELSE b
        hi == IF a < b THEN b ELSE a
    IN  SubSeq(text, lo + 1, IF hi > Len(text) THEN Len(text) ELSE hi)

\* The search-mode cleanup of lines 141-148.
CleanSearchText(jsonText) ==
    LET stripped == StripFence(StripFence(jsonText, "fence-json"), "fence")
        firstOpen == IndexOf(stripped, "{")
        lastClose == LastIndexOf(stripped, "}")
    IN  IF firstOpen # -1 /\ lastClose # -1
          THEN Substring(stripped, firstOpen, lastClose + 1)
          ELSE stripped

\* lines 135-153: parsedData.
PodcastParsed(out, isSearchMode) ==
    LET jsonText == IF isSearchMode THEN CleanSearchText(out.text) ELSE out.text
    IN  IF out.text # << >> /\ JSONParses(jsonText) THEN JSONParse(jsonText) ELSE JSNull

\* A faulty variant: no sources.
PodcastSourcesDropped(out) == << >>

\* lines 156-165: the web chunks' {title, uri}, in order.
PodcastSources(out) ==
    LET web == SelectSeq(out.chunks, LAMBDA c : c.web)
    IN  [i \in 1..Len(web) |-> [title |-> web[i].title, uri |-> web[i].uri]]

Resolved(v) == [status |-> "resolved", value |-> v]
Rejected(e) == [status |-> "rejected", value |-> JSObject([error |-> e])]

\* getClient (lines 6-12) as analyzePodcast meets it at line 60: the async function
\* rejects with getClient's error.
PodcastNoKey == Rejected("API Key not found")

\* analyzePodcast's catch block (lines 172-175) rethrows.
PodcastCatch == Rejected("generateContent failed")

\* analyzePodcast from the completion of generateContent on (lines 126-176).
PodcastAfterCall(out, isSearchMode) ==
    IF out.kind = "throw" THEN PodcastCatch
    ELSE Resolved(JSObject([data |-> PodcastParsed(out, isSearchMode),
                            sources |-> PodcastSources(out)]))

(***************************************************************************)
(* The texts the model draws its inputs from                               *)
(***************************************************************************)

\* "[標的] 2330 台積 多", "空 逃 Re", "Re 2330", "空 空 多"
Titles ==
    { << "[", "biao", "di", "]", " ", "2", "3", "3", "0", " ", "tai", "ji", " ", "duo" >>,
      << "kong", "tao", " ", "R", "e" >>,
      << "R", "e", " ", "2", "3", "3", "0" >>,
      << "kong", " ", "kong", " ", "duo" >> }

\* line 42 and line 106: the characters of the content that go into the prompt
LightBudget == 2000
DeepBudget == 5000

\* A content longer than both budgets: its only keyword, "崩", comes after the first
\* LightBudget characters.
LongContent == [n \in 1..(DeepBudget + 1) |-> IF n = LightBudget + 1 THEN "beng" ELSE "x"]

\* fullContent of a detail page: "崩 空 逃 \n\n推文:\n", "噴 \n\n推文:\n", and the long one
Contents ==
    { << "beng", "kong", "tao", "nl", "nl", "tui", "wen", ":", "nl" >>,
      << "pen", "nl", "nl", "tui", "wen", ":", "nl" >>,
      LongContent }

\* line 42: the part of the content in analyzeSentimentWithLLM's prompt
LightPromptContent(content) == Substring(content, 0, LightBudget)

\* line 106: the part of the content in analyzeArticleWithLLM's prompt
DeepPromptContent(content) == Substring(content, 0, DeepBudget)

NoCall == [fn |-> "none", title |-> << >>, content |-> << >>, audio |-> FALSE, sent |-> << >>]
NoOutcome == [kind |-> "none", text |-> << >>, chunks |-> << >>]
NoRet == [status |-> "none", value |-> JSNull]


LLMIdle ==
    /\ llmPc = "idle"
    /\ llmCall = NoCall
    /\ llmOut = NoOutcome
    /\ llmRet = NoRet

(***************************************************************************)
(* src/server/index.ts: the forum as the server sees it                    *)
(***************************************************************************)

PagesCap == 3
PerPageCap == 5
PushThreshold == 20
BaoValue == 100

\* The rows the forum serves in one run, over all its listing pages.
MaxRows == 6

\* The decimal numeral of a small number.
Numeral(n) == << "0", "1", "2", "3", "4", "5", "6", "7", "8", "9" >>[n + 1]

Origin == << "https://", "www.", "ptt.cc" >>
IndexPath == << "/bbs/Stock/index", "", ".html" >>
IndexUrl == Origin \o IndexPath

\* The href of the listing page n pages before the newest one.
PagePath(n) == IF n = 0 THEN IndexPath ELSE << "/bbs/Stock/index", Numeral(n), ".html" >>

\* The href of the post listed in row j of the listing page at url.
PostPath(url, j) == << "/bbs/Stock/M.", url[5], ".", Numeral(j), ".html" >>

NoHref == << >>

\* The kinds of listing row; "target" is the row the forum serves unless it spends
\* its one odd answer.  nrec: the text of the row's push-count cell.
RowKinds ==
    {"target", "target-x", "deleted", "cold", "hot", "bao", "junk", "neg", "blank", "runs"}

RowTitle(kind) ==
    CASE kind \in {"target", "target-x"} ->
           << "[", "biao", "di", "]", " ", "2", "3", "3", "0", " ", "tai", "ji", " ", "duo" >>
      [] kind = "hot" -> << "kong", "tao", " ", "R", "e" >>
      [] kind = "runs" ->
           << "R", "2", "3", "3", "0", " ", "2", "3", "3", "0", "_", " ",
              "1", "2", "3", "4", "5", " ", "tai", "2", "4", "5", "4", "ji", " ",
              "2", "3", "3", "0" >>
      [] OTHER -> << "R", "e", " ", "2", "3", "3", "0" >>

RowNrec(kind) ==
    CASE kind = "target" -> << "5" >>
      [] kind = "target-x" -> << "X", "1" >>
      [] kind = "cold" -> << "2", "0" >>
      [] kind = "hot" -> << "2", "1" >>
      [] kind = "bao" -> << "bao" >>
      [] kind = "runs" -> << "bao" >>
      [] kind = "junk" -> << "X", "1" >>
      [] kind = "neg" -> << "-", "5" >>
      [] OTHER -> << >>

\* Row j of the listing page at url; a deleted post's row has no title anchor.
ListingRow(url, j, kind) ==
    [ anchor |-> kind # "deleted",
      title |-> RowTitle(kind),
      href |-> PostPath(url, j),
      author |-> "author",
      date |-> "11/02",
      nrec |-> RowNrec(kind) ]

\* The detail page a post usually has: #main-content's text and the .push elements.
UsualDetail == [main |-> << "pen" >>, pushes |-> << >>]

\* The detail pages.
DetailPages ==
    { UsualDetail,
      [main |-> << "beng", "kong", "tao" >>,
       pushes |-> << [tag |-> << "tui" >>, content |-> << "kong" >>] >>] }

(***************************************************************************)
(* src/server/index.ts: the handlers' own computations                     *)
(***************************************************************************)

Digits == {"0", "1", "2", "3", "4", "5", "6", "7", "8", "9"}

DigitValue(c) ==
    CASE c = "0" -> 0 [] c = "1" -> 1 [] c = "2" -> 2 [] c = "3" -> 3 [] c = "4" -> 4
      [] c = "5" -> 5 [] c = "6" -> 6 [] c = "7" -> 7 [] c = "8" -> 8 [] c = "9" -> 9

RECURSIVE DigitsPrefix(_)
\* The leading digits of a text.
DigitsPrefix(s) ==
    IF s # << >> /\ Head(s) \in Digits THEN << Head(s) >> \o DigitsPrefix(Tail(s)) ELSE << >>

RECURSIVE DecimalValue(_)
DecimalValue(ds) ==
    IF ds = << >> THEN 0 ELSE 10 * DecimalValue(SubSeq(ds, 1, Len(ds) - 1)) + DigitValue(ds[Len(ds)])

NaN == [nan |-> TRUE, n |-> 0]
Number(n) == [nan |-> FALSE, n |-> n]

\* parseInt(s, 10) of a trimmed text: an optional sign, then the leading digits.
parseInt(s) ==
    LET signed == s # << >> /\ Head(s) \in {"-", "+"}
        ds == DigitsPrefix(IF signed THEN Tail(s) ELSE s)
    IN  IF ds = << >> THEN NaN
        ELSE IF signed /\ Head(s) = "-" THEN Number(0 - DecimalValue(ds))
        ELSE Number(DecimalValue(ds))

\* lines 108-114
pushCountVal(pushCountText) ==
    IF pushCountText = << "bao" >> THEN BaoValue
    ELSE IF pushCountText # << >>
      THEN (IF parseInt(pushCountText).nan THEN 0 ELSE parseInt(pushCountText).n)
    ELSE 0

Marker == << "[", "biao", "di", "]" >>

NoCategory == "null"

\* A faulty variant of Category: the threshold itself counts as popular.
CategoryAtLeast(rowTitle, pushCountText) ==
    IF Includes(rowTitle, Marker) THEN "Target"
    ELSE IF pushCountVal(pushCountText) >= PushThreshold THEN "Other"
    ELSE NoCategory

\* lines 116-121
Category(rowTitle, pushCountText) ==
    IF Includes(rowTitle, Marker) THEN "Target"
    ELSE IF pushCountVal(pushCountText) > PushThreshold THEN "Other"
    ELSE NoCategory

\* The .each callback of lines 98-133 on one row: pagePosts after it.
RowCallback(list, row) ==
    IF ~row.anchor THEN list
    ELSE IF Category(row.title, row.nrec) # NoCategory
      THEN Append(list, [ title |-> row.title,
                          link |-> Origin \o row.href,
                          author |-> row.author,
                          date |-> row.date,
                          pushCountText |-> row.nrec,
                          category |-> Category(row.title, row.nrec) ])
    ELSE list

\* A faulty variant of Slice: every candidate of the page is kept.
SliceNoCap(list) == list

\* line 137: pagePosts.slice(0, 5)
Slice(list) == SubSeq(list, 1, IF Len(list) < PerPageCap THEN Len(list) ELSE PerPageCap)

RECURSIVE PushLines(_)
\* lines 154-159: one "tag content\n" line per .push element.
PushLines(pushes) ==
    IF pushes = << >> THEN << >>
    ELSE Head(pushes).tag \o << " " >> \o Head(pushes).content \o << "nl" >>
         \o PushLines(Tail(pushes))

\* lines 151-161
FullContent(page) ==
    page.main \o << "nl", "nl", "tui", "wen", ":", "nl" >> \o PushLines(page.pushes)

WordChars == Digits \cup {"R", "e", "E", "P", "X", "_"}

\* Whether /\b\d{4}\b/ matches at position n of s.
StockIdAt(s, n) ==
    /\ n + 3 <= Len(s)
    /\ \A m \in n..(n + 3) : s[m] \in Digits
    /\ (n = 1 \/ s[n - 1] \notin WordChars)
    /\ (n + 3 = Len(s) \/ s[n + 4] \notin WordChars)

NoStockId == << "null" >>

\* A faulty variant: the first four digits in a row, whatever surrounds them.
StockIdAnyFourDigits(s) ==
    IF \E n \in 1..(Len(s) - 3) : \A m \in n..(n + 3) : s[m] \in Digits
      THEN LET n == CHOOSE n \in 1..(Len(s) - 3) :
                      /\ \A m \in n..(n + 3) : s[m] \in Digits
                      /\ \A k \in 1..(n - 1) : \E m \in k..(k + 3) : s[m] \notin Digits
           IN  SubSeq(s, n, n + 3)
      ELSE NoStockId

\* lines 168-169
StockId(s) ==
    IF \E n \in 1..Len(s) : StockIdAt(s, n)
      THEN LET n == CHOOSE n \in 1..Len(s) :
                      StockIdAt(s, n) /\ \A m \in 1..(n - 1) : ~StockIdAt(s, m)
           IN  SubSeq(s, n, n + 3)
      ELSE NoStockId

\* A faulty variant: the default result carries the reason of an unparsed answer.
DetailUnreadAsUnparsed ==
    JSObject([sentiment |-> "Neutral", reason |-> "cannot parse AI response"])

\* line 142
DetailUnread == JSObject([sentiment |-> "Neutral", reason |-> "cannot read the content"])

\* lines 171-181: the ForumPost of candidate p and its sentimentResult.
ForumPost(p, sentimentResult) ==
    [ title |-> p.title,
      author |-> p.author,
      date |-> p.date,
      link |-> p.link,
      pushCount |-> p.pushCountText,
      stockId |-> StockId(p.title),
      sentiment |-> Get(sentimentResult, "sentiment"),
      reason |-> Get(sentimentResult, "reason"),
      category |-> p.category ]

(***************************************************************************)
(* src/server/index.ts: GET /api/ptt-sentiment                             *)
(***************************************************************************)

NoRes == [status |-> 0, body |-> [success |-> FALSE, error |-> "", data |-> << >>]]
Ok(data) == [status |-> 200, body |-> [success |-> TRUE, error |-> "", data |-> data]]
Fail(status, error) ==
    [status |-> status, body |-> [success |-> FALSE, error |-> error, data |-> << >>]]

\* A listing document: the kinds of the rows parsed so far, and the href of its
\* second paging button.
NoHtml == [prev |-> NoHref, rows |-> << >>]
NoBody == [hasUrl |-> FALSE, url |-> << >>]

ServerIdle ==
    /\ route = "none"
    /\ pc = "idle"
    /\ res = NoRes
    /\ loopI = 0
    /\ currentUrl = IndexUrl
    /\ html = NoHtml
    /\ pagePosts = << >>
    /\ postsToAnalyze = << >>
    /\ cand = 0
    /\ fullContent = << >>
    /\ posts = << >>
    /\ reqBody = NoBody
    /\ pageTitle = << >>
       \* listing: listing fetches started; detail, classified: detail fetches started
       \* and analyzeSentimentWithLLM calls made for the current listing page; llm: LLM
       \* calls started; page: analyze-url page fetches started; failed: fetches that
       \* failed; open: the external calls of the ptt-sentiment run that are outstanding;
       \* appended: the posts appended to the result for the current listing page.
    /\ net = [listing |-> 0, detail |-> 0, classified |-> 0, llm |-> 0, page |-> 0,
              failed |-> 0, open |-> 0, appended |-> 0]
       \* rows: the rows served so far.  odd: whether the run has had its one odd
       \* answer: a row other than the usual target row, a paging link back to the
       \* newest page, a failed or unusual detail page, an LLM outcome other than the
       \* usual one.
    /\ forum = [rows |-> 0, odd |-> FALSE]

\* The page number in a listing url.
PageNumber(url) == IF url[5] = "" THEN 0 ELSE DigitValue(url[5])

\* The hrefs the second paging button of the listing at url may carry: none, the
\* page before it, or the newest page again.
PrevChoices(url) ==
    {NoHref, IndexPath} \cup
    (IF PageNumber(url) < PagesCap THEN {PagePath(PageNumber(url) + 1)} ELSE {})

\* The answer the LLM gives unless the run spends its one odd answer on it.
UsualOutcome ==
    [kind |-> "response", text |-> << "{", "sBull", "r1", "}" >>, chunks |-> << >>]

\* A faulty variant of Resumed: the handler goes on while the call is still
\* outstanding, as it would without the await.
ResumedUnawaited(open) == open

\* await (lines 91, 141, 164): the handler resumes when the call it awaits has
\* completed, so of the calls that were outstanding that one no longer is.
Resumed(open) == open - 1

\* The run has spent no odd answer yet, or the answer is the usual one.
MayAnswer(odd) == ~odd \/ ~forum.odd

Spend(odd) == [forum EXCEPT !.odd = @ \/ odd]

\* GET /api/ptt-sentiment arrives: lines 86-91, to the first await.
GetPttSentiment ==
    /\ route = "none"
    /\ route' = "ptt-sentiment"
    /\ posts' = << >>
    /\ currentUrl' = IndexUrl
    /\ loopI' = 0
    /\ pc' = "listing"
    /\ net' = [net EXCEPT !.listing = @ + 1, !.open = @ + 1]
    /\ UNCHANGED <<apiKey, appVars, feedVars, indexVars, llmVars, res, html, pagePosts, postsToAnalyze, cand, fullContent,
                   urlVars, forum>>

\* A faulty variant of ListingFails: the failure is answered as the handler's catch
\* block answers an exception.
ListingFailsAsException ==
    /\ route = "ptt-sentiment" /\ pc = "listing"
    /\ html' = NoHtml
    /\ pc' = "responded"
    /\ res' = Fail(500, "Failed to fetch PTT data")
    /\ net' = [net EXCEPT !.failed = @ + 1, !.open = Resumed(@)]
    /\ UNCHANGED <<apiKey, appVars, feedVars, indexVars, llmVars, route, loopI, currentUrl, pagePosts,
                   postsToAnalyze, cand, fullContent, posts, urlVars, forum>>

\* The listing fetch fails: fetchPTTPage gives '', so html is the empty document, line
\* 92 leaves the loop and line 193 responds.
ListingFails ==
    /\ route = "ptt-sentiment" /\ pc = "listing"
    /\ html' = NoHtml
    /\ pc' = "responded"
    /\ res' = Ok(posts)
    /\ net' = [net EXCEPT !.failed = @ + 1, !.open = Resumed(@)]
    /\ UNCHANGED <<apiKey, appVars, feedVars, indexVars, llmVars, route, loopI, currentUrl, pagePosts,
                   postsToAnalyze, cand, fullContent, posts, urlVars, forum>>

\* The listing arrives: lines 94-95.
ListingArrives ==
    /\ route = "ptt-sentiment" /\ pc = "listing"
    /\ \E prev \in PrevChoices(currentUrl) :
        /\ MayAnswer(prev = IndexPath)
        /\ forum' = Spend(prev = IndexPath)
        /\ html' = [prev |-> prev, rows |-> << >>]
    /\ pagePosts' = << >>
    /\ pc' = "rows"
    /\ net' = [net EXCEPT !.detail = 0, !.classified = 0, !.appended = 0,
                          !.open = Resumed(@)]
    /\ UNCHANGED <<apiKey, appVars, feedVars, indexVars, llmVars, route, res, loopI, currentUrl, postsToAnalyze, cand,
                   fullContent, posts, urlVars>>

\* The .each callback runs on the next .r-ent row of the listing: lines 98-133.
ParseRow ==
    /\ route = "ptt-sentiment" /\ pc = "rows"
    /\ forum.rows < MaxRows
    /\ \E kind \in RowKinds :
        /\ MayAnswer(kind # "target")
        /\ pagePosts' =
             RowCallback(pagePosts, ListingRow(currentUrl, Len(html.rows) + 1, kind))
        /\ forum' = [Spend(kind # "target") EXCEPT !.rows = @ + 1]
        /\ html' = [html EXCEPT !.rows = Append(@, kind)]
    /\ UNCHANGED <<apiKey, appVars, feedVars, indexVars, llmVars, route, pc, res, loopI, currentUrl, postsToAnalyze, cand,
                   fullContent, posts, urlVars, net>>

\* A faulty variant of AfterPage: the next iteration fetches the newest page again
\* whatever the previous-page link is.
AfterPageRestarts(ps) ==
    IF loopI + 1 < PagesCap
      THEN /\ currentUrl' = IndexUrl
           /\ loopI' = loopI + 1
           /\ pc' = "listing"
           /\ res' = res
      ELSE /\ currentUrl' = currentUrl
           /\ loopI' = loopI + 1
           /\ pc' = "responded"
           /\ res' = Ok(ps)

\* Lines 184-193 once the candidates of the page are done, the result list being ps:
\* follow the previous-page link into the next iteration, or respond.
AfterPage(ps) ==
    IF html.prev # NoHref /\ loopI + 1 < PagesCap
      THEN /\ currentUrl' = Origin \o html.prev
           /\ loopI' = loopI + 1
           /\ pc' = "listing"
           /\ res' = res
      ELSE /\ currentUrl' = (IF html.prev # NoHref THEN Origin \o html.prev ELSE currentUrl)
           /\ loopI' = (IF html.prev # NoHref THEN loopI + 1 ELSE loopI)
           /\ pc' = "responded"
           /\ res' = Ok(ps)

\* The history counters after a step: the fetches and calls it starts, whether the
\* fetch it ends had failed, and whether it resumes from an await (ended = 1).
Started(detail, listing, classified, llm, failed, ended) ==
    [net EXCEPT !.detail = @ + detail, !.listing = @ + listing,
                !.classified = @ + classified, !.llm = @ + llm, !.failed = @ + failed,
                !.open = (IF ended = 1 THEN Resumed(@) ELSE @) + detail + listing + llm]

\* The listing has no more rows: line 137, then the first candidate's detail fetch
\* (line 141) or, with no candidate, the end of the page.
RowsDone ==
    /\ route = "ptt-sentiment" /\ pc = "rows"
    /\ postsToAnalyze' = Slice(pagePosts)
    /\ IF Slice(pagePosts) # << >>
         THEN /\ cand' = 1
              /\ pc' = "detail"
              /\ net' = Started(1, 0, 0, 0, 0, 0)
              /\ UNCHANGED <<res, loopI, currentUrl>>
         ELSE /\ cand' = 0
              /\ AfterPage(posts)
              /\ net' = Started(0, IF pc' = "listing" THEN 1 ELSE 0, 0, 0, 0, 0)
    /\ UNCHANGED <<apiKey, appVars, feedVars, indexVars, llmVars, route, html, pagePosts, fullContent, posts, urlVars,
                   forum>>

\* A faulty variant of PushPost: the post is put in front of the result (unshift).
PushPostInFront(sentimentResult, classified, failed) ==
    /\ posts' = << ForumPost(postsToAnalyze[cand], sentimentResult) >> \o posts
    /\ fullContent' = << >>
    /\ IF cand < Len(postsToAnalyze)
         THEN /\ cand' = cand + 1
              /\ pc' = "detail"
              /\ net' = [Started(1, 0, classified, 0, failed, 1) EXCEPT !.appended = @ + 1]
              /\ UNCHANGED <<res, loopI, currentUrl>>
         ELSE /\ cand' = cand
              /\ AfterPage(posts')
              /\ net' = [Started(0, IF pc' = "listing" THEN 1 ELSE 0, classified, 0, failed, 1)
                          EXCEPT !.appended = @ + 1]

\* Lines 171-182 for candidate p with its sentimentResult, then the next candidate's
\* detail fetch or the end of the page.
PushPost(sentimentResult, classified, failed) ==
    /\ posts' = Append(posts, ForumPost(postsToAnalyze[cand], sentimentResult))
    /\ fullContent' = << >>
    /\ IF cand < Len(postsToAnalyze)
         THEN /\ cand' = cand + 1
              /\ pc' = "detail"
              /\ net' = [Started(1, 0, classified, 0, failed, 1) EXCEPT !.appended = @ + 1]
              /\ UNCHANGED <<res, loopI, currentUrl>>
         ELSE /\ cand' = cand
              /\ AfterPage(posts')
              /\ net' = [Started(0, IF pc' = "listing" THEN 1 ELSE 0, classified, 0, failed, 1)
                          EXCEPT !.appended = @ + 1]

\* The detail fetch fails: detailHtml is '', lines 142-144 keep the default.
DetailFails ==
    /\ route = "ptt-sentiment" /\ pc = "detail"
    /\ MayAnswer(TRUE)
    /\ forum' = Spend(TRUE)
    /\ PushPost(DetailUnread, 0, 1)
    /\ UNCHANGED <<apiKey, appVars, feedVars, indexVars, llmVars, route, html, pagePosts, postsToAnalyze, urlVars>>

\* The detail page arrives: lines 145-164.  Without a client analyzeSentimentWithLLM
\* returns at once; with one, its LLM call starts.
DetailArrives ==
    /\ route = "ptt-sentiment" /\ pc = "detail"
    /\ \E page \in DetailPages :
        /\ MayAnswer(page # UsualDetail)
        /\ forum' = Spend(page # UsualDetail)
        /\ IF apiKey
             THEN /\ fullContent' = FullContent(page)
                  /\ pc' = "llm"
                  /\ net' = Started(0, 0, 1, 1, 0, 1)
                  /\ UNCHANGED <<res, loopI, currentUrl, cand, posts>>
             ELSE PushPost(LightNoClient(postsToAnalyze[cand].title, FullContent(page)), 1, 0)
    /\ UNCHANGED <<apiKey, appVars, feedVars, indexVars, llmVars, route, html, pagePosts, postsToAnalyze, urlVars>>

\* The LLM call of analyzeSentimentWithLLM completes: analyzer.ts lines 76-92, then
\* index.ts lines 167-182.
PttLLMAnswers ==
    /\ route = "ptt-sentiment" /\ pc = "llm"
    /\ \E out \in LLMOutcomes :
        /\ MayAnswer(out # UsualOutcome)
        /\ forum' = Spend(out # UsualOutcome)
        /\ PushPost(LightAfterCall(postsToAnalyze[cand].title, fullContent, out), 0, 0)
    /\ UNCHANGED <<apiKey, appVars, feedVars, indexVars, llmVars, route, html, pagePosts, postsToAnalyze, urlVars>>

(***************************************************************************)
(* src/server/index.ts: POST /api/analyze-url                              *)
(***************************************************************************)

\* The request bodies: no url, the empty url, a post of the forum, another site, and
\* another site with the forum's domain in its query.
Bodies ==
    { NoBody,
      [hasUrl |-> TRUE, url |-> << >>],
      [hasUrl |-> TRUE, url |-> Origin \o << "/bbs/Stock/M.", "", ".", "1", ".html" >>],
      [hasUrl |-> TRUE, url |-> << "https://", "example.com", "/not-ptt" >>],
      [hasUrl |-> TRUE, url |-> << "https://", "example.com", "/?q=", "ptt.cc" >>] }

\* A faulty variant of ValidUrl: any non-empty url passes.
ValidUrlAnySite(b) == b.hasUrl /\ b.url # << >>

\* line 44
ValidUrl(b) == b.hasUrl /\ b.url # << >> /\ Includes(b.url, << "ptt.cc" >>)

\* The article pages: the texts the two title selectors find, the main content and
\* the pushes.
ArticlePages ==
    { [right |-> << "R", "e" >>, second |-> << "x" >>,
       main |-> << "beng", "kong" >>,
       pushes |-> << [tag |-> << "tui" >>, content |-> << "kong" >>] >>],
      [right |-> << >>, second |-> << "x" >>, main |-> << "pen" >>, pushes |-> << >>],
      [right |-> << >>, second |-> << >>, main |-> << >>, pushes |-> << >>] }

UnknownTitle == << "Unknown Title" >>

\* line 55
ExtractTitle(page) ==
    IF page.right # << >> THEN page.right
    ELSE IF page.second # << >> THEN page.second
    ELSE UnknownTitle

\* line 76: { title, ...analysis }
AnalysisData(t, analysis) ==
    Spread([title |-> t], IF analysis.t = "object" THEN analysis.f ELSE [x \in {} |-> 0])

\* A faulty variant of PageUnfetched: the failure is reported as the catch block
\* of lines 78-81 reports an exception.
PageUnfetchedAsException == Fail(500, "Analysis failed")

\* lines 50-52
PageUnfetched == Fail(500, "Failed to fetch page")

\* line 45
InvalidUrl == Fail(400, "Invalid URL")

\* POST /api/analyze-url arrives: lines 43-49, to the first await.
PostAnalyzeUrl ==
    /\ route = "none"
    /\ route' = "analyze-url"
    /\ \E b \in Bodies :
        /\ reqBody' = b
        /\ IF ValidUrl(b)
             THEN pc' = "page" /\ res' = res /\ net' = [net EXCEPT !.page = @ + 1]
             ELSE pc' = "responded" /\ res' = InvalidUrl /\ net' = net
    /\ UNCHANGED <<apiKey, appVars, feedVars, indexVars, llmVars, pttVars, pageTitle, forum>>

\* The page fetch fails: lines 50-52.
PageFails ==
    /\ route = "analyze-url" /\ pc = "page"
    /\ pc' = "responded"
    /\ res' = PageUnfetched
    /\ net' = [net EXCEPT !.failed = @ + 1]
    /\ UNCHANGED <<apiKey, appVars, feedVars, indexVars, llmVars, route, pttVars, urlVars, forum>>

\* The page arrives: lines 54-74.  Without a client analyzeArticleWithLLM returns at
\* once and line 76 responds; with one, its LLM call starts.
PageArrives ==
    /\ route = "analyze-url" /\ pc = "page"
    /\ \E page \in ArticlePages :
        /\ pageTitle' = ExtractTitle(page)
        /\ IF apiKey
             THEN pc' = "llm" /\ res' = res /\ net' = [net EXCEPT !.llm = @ + 1]
             ELSE /\ pc' = "responded"
                  /\ res' = Ok(AnalysisData(ExtractTitle(page), DeepNoClient))
                  /\ net' = net
    /\ UNCHANGED <<apiKey, appVars, feedVars, indexVars, llmVars, route, pttVars, reqBody, forum>>

\* The LLM call of analyzeArticleWithLLM completes: analyzer.ts lines 159-175, then
\* index.ts line 76.
UrlLLMAnswers ==
    /\ route = "analyze-url" /\ pc = "llm"
    /\ \E out \in LLMOutcomes :
        res' = Ok(AnalysisData(pageTitle, DeepAfterCall(out)))
    /\ pc' = "responded"
    /\ UNCHANGED <<apiKey, appVars, feedVars, indexVars, llmVars, route, pttVars, urlVars, net, forum>>

(***************************************************************************)
(* src/services/geminiService.ts: fetchRecentEpisodes                      *)
(***************************************************************************)

FeedCap == 10    \* line 250: Math.min(items.length, 10)
MaxItems == 11   \* the most items a feed of the model carries

Min(a, b) == IF a < b THEN a ELSE b

RECURSIVE DecimalText(_)
\* The decimal text of a non-negative integer, as the template literal of line 267
\* writes it.
DecimalText(n) ==
    IF n < 10 THEN << Numeral(n) >> ELSE DecimalText(n \div 10) \o << Numeral(n % 10) >>

\* A faulty variant of corsProxies: the two proxies in the other order.
corsProxiesSwapped == << "https://corsproxy.io/?", "https://api.allorigins.win/raw?url=" >>

\* lines 202-205
corsProxies == << "https://api.allorigins.win/raw?url=", "https://corsproxy.io/?" >>

\* encodeURIComponent, on the characters a feed URL of the model has.
EncodeChar(c) ==
    CASE c = ":" -> "%3A"
      [] c = "/" -> "%2F"
      [] OTHER -> c

encodeURIComponent(s) == [i \in 1..Len(s) |-> EncodeChar(s[i])]

\* line 212
ProxiedFeedUrl(corsProxy, url) == << corsProxy >> \o encodeURIComponent(url)

\* What the lookup's JSON can be (lines 190-192): no results field, an empty results
\* list, a first result without a feedUrl, a first result with one.
TheFeedUrl == << "https", ":", "/", "/", "feeds.example", "/", "rss" >>
LookupData ==
    { [hasResults |-> FALSE, results |-> << >>],
      [hasResults |-> TRUE, results |-> << >>],
      [hasResults |-> TRUE, results |-> << [feedUrl |-> << >>] >>],
      [hasResults |-> TRUE, results |-> << [feedUrl |-> TheFeedUrl] >>] }

\* line 192: data.results?.[0]?.feedUrl (an absent value is the empty text here, both
\* are falsy at line 194)
FeedUrlOf(data) ==
    IF data.hasResults /\ data.results # << >> THEN data.results[1].feedUrl ELSE << >>

\* title.match(/EP(\d+)/i) at line 258: the digits captured by the leftmost match, the
\* empty text when the title has no match.
EpisodeNumberMatch(title) ==
    LET at(p) == /\ LowerChar(title[p]) = "e"
                 /\ LowerChar(title[p + 1]) = "p"
                 /\ title[p + 2] \in Digits
        ps == {p \in 1..(Len(title) - 2) : at(p)}
    IN  IF ps = {} THEN << >>
        ELSE LET first == CHOOSE p \in ps : \A q \in ps : p <= q
             IN  DigitsPrefix(SubSeq(title, first + 2, Len(title)))

\* A faulty variant: the episode element is preferred to the number in the title.
EpisodeNumberFieldFirst(items, i) ==
    LET item == items[i + 1]
        matched == EpisodeNumberMatch(item.title)
    IN  IF item.episode # << >> THEN << "E", "P" >> \o item.episode
        ELSE IF matched # << >> THEN << "E", "P" >> \o matched
        ELSE << "E", "P" >> \o DecimalText(Len(items) - i)

\* lines 258-268: the episode number of item i (from 0) of the feed's items
EpisodeNumber(items, i) ==
    LET item == items[i + 1]
        matched == EpisodeNumberMatch(item.title)
    IN  IF matched # << >> THEN << "E", "P" >> \o matched
        ELSE IF item.episode # << >> THEN << "E", "P" >> \o item.episode
        ELSE << "E", "P" >> \o DecimalText(Len(items) - i)

MonthNumber(m) ==
    CASE m = "Oct" -> "10"
      [] m = "Nov" -> "11"
      [] m = "Dec" -> "12"
      [] OTHER -> ""

\* new Date(pubDate) at line 272: the day a text of the form day, month, year
\* denotes, and the invalid date for any other text.
InvalidDate == << >>
NewDate(pubDate) ==
    IF Len(pubDate) = 3 /\ MonthNumber(pubDate[2]) # ""
      THEN << pubDate[3], MonthNumber(pubDate[2]), pubDate[1] >>
      ELSE InvalidDate

\* toISOString().split('T')[0] of a valid date
IsoDay(d) == << d[1], "-", d[2], "-", d[3] >>

\* new Date() at lines 273 and 290, and new Date(Date.now() - 86400000 * 3) at line 291
Today == << "2026", "11", "02" >>
ThreeDaysAgo == << "2026", "10", "30" >>

\* line 272: toISOString throws a RangeError on the invalid date
DateThrows(item) == item.pubDate # << >> /\ NewDate(item.pubDate) = InvalidDate

\* lines 271-273
EpisodeDate(item) ==
    IF item.pubDate # << >> THEN IsoDay(NewDate(item.pubDate)) ELSE IsoDay(Today)

\* lines 275-280
EpisodeOf(items, i) ==
    [id |-> EpisodeNumber(items, i),
     episodeNumber |-> EpisodeNumber(items, i),
     title |-> items[i + 1].title,
     date |-> EpisodeDate(items[i + 1])]

\* lines 289-292: the catch block's list
MockEpisodes ==
    << [id |-> << "E", "P", "5", "3", "1" >>,
        episodeNumber |-> << "E", "P", "5", "3", "1" >>,
        title |-> << "E", "P", "5", "3", "1", " ", "-", " ", "zui", "xin", "ji", "shu", " ", "(Mock)" >>,
        date |-> IsoDay(Today)],
       [id |-> << "E", "P", "5", "3", "0" >>,
        episodeNumber |-> << "E", "P", "5", "3", "0" >>,
        title |-> << "E", "P", "5", "3", "0", " ", "-", " ", "shang", "yi", "ji", " ", "(Mock)" >>,
        date |-> IsoDay(ThreeDaysAgo)] >>

\* lines 246-283 with the catch of line 285: the episodes of a well-formed feed
EpisodesOfItems(items) ==
    LET n == Min(Len(items), FeedCap)
    IN  IF \E i \in 0..(n - 1) : DateThrows(items[i + 1])
          THEN MockEpisodes
          ELSE [j \in 1..n |-> EpisodeOf(items, j - 1)]

\* lines 231-283 with the catch of line 285: the episodes of a fetched text
EpisodesOfText(text) ==
    CASE text.kind = "empty" -> MockEpisodes
      [] text.kind = "malformed" -> MockEpisodes
      [] OTHER -> EpisodesOfItems(text.items)

\* The items a feed may carry: the usual one, and the odd ones (a lower-case number in
\* the title, a number in the episode element only, no number at all, a date that is
\* no date, no date, an earlier date).
FeedItem(t, d, e) == [title |-> t, pubDate |-> d, episode |-> e]
UsualDate == << "02", "Nov", "2026" >>
UsualItem == FeedItem(<< "E", "P", "5", "3", "1", " ", "t" >>, UsualDate, << >>)
OddItems ==
    { FeedItem(<< "t", " ", "e", "p", "7", "x" >>, UsualDate, << "1", "2" >>),
      FeedItem(<< "t" >>, UsualDate, << "1", "2" >>),
      FeedItem(<< "t" >>, UsualDate, << >>),
      FeedItem(<< "E", "P", "5", "3", "1" >>, << "soon" >>, << >>),
      FeedItem(<< "E", "P", "5", "3", "1" >>, << >>, << >>),
      FeedItem(<< "E", "P", "5", "3", "0" >>, << "30", "Oct", "2026" >>, << >>) }

\* The texts a proxy may deliver: an empty body, a text that is no XML, a feed of up
\* to MaxItems items of which at most one is odd.
NoText == [kind |-> "none", items |-> << >>]
XmlTexts ==
    { [kind |-> "empty", items |-> << >>], [kind |-> "malformed", items |-> << >>] }
    \cup { [kind |-> "rss", items |-> [j \in 1..n |-> IF j = k THEN odd ELSE UsualItem]] :
              n \in 0..MaxItems, k \in 0..MaxItems, odd \in OddItems }

FeedIdle ==
    /\ epPc = "idle"
    /\ feedUrl = << >>
    /\ tried = << >>
    /\ xmlText = NoText
    /\ episodes = << >>

\* fetchRecentEpisodes() up to the await of line 190
FetchRecentEpisodes ==
    /\ epPc = "idle"
    /\ epPc' = "lookup"
    /\ UNCHANGED <<apiKey, appVars, indexVars, llmVars, serverVars, feedUrl, tried, xmlText, episodes>>

\* lines 190-191 throw (the lookup or its json() rejects): the catch of line 285
LookupFails ==
    /\ epPc = "lookup"
    /\ epPc' = "done"
    /\ episodes' = MockEpisodes
    /\ UNCHANGED <<apiKey, appVars, indexVars, llmVars, serverVars, feedUrl, tried, xmlText>>

\* lines 191-215: the lookup's data arrives; without a feed URL line 195 throws, with
\* one the first proxy is fetched
LookupArrives ==
    /\ epPc = "lookup"
    /\ \E data \in LookupData :
          /\ feedUrl' = FeedUrlOf(data)
          /\ IF FeedUrlOf(data) = << >>
               THEN /\ epPc' = "done"
                    /\ episodes' = MockEpisodes
                    /\ UNCHANGED tried
               ELSE /\ epPc' = "proxy"
                    /\ tried' = << ProxiedFeedUrl(corsProxies[1], FeedUrlOf(data)) >>
                    /\ UNCHANGED episodes
    /\ UNCHANGED <<apiKey, appVars, indexVars, llmVars, serverVars, xmlText>>

\* lines 215-228: the fetch rejects or answers with a status that is not ok; the next
\* proxy is fetched, and after the last one line 232 throws
ProxyFails ==
    /\ epPc = "proxy"
    /\ IF Len(tried) < Len(corsProxies)
         THEN /\ tried' = Append(tried, ProxiedFeedUrl(corsProxies[Len(tried) + 1], feedUrl))
              /\ UNCHANGED <<epPc, episodes>>
         ELSE /\ epPc' = "done"
              /\ episodes' = MockEpisodes
              /\ UNCHANGED tried
    /\ UNCHANGED <<apiKey, appVars, indexVars, llmVars, serverVars, feedUrl, xmlText>>

\* lines 221-283: a proxy delivers a text, the loop ends at line 223 and the text is
\* parsed
ProxyArrives ==
    /\ epPc = "proxy"
    /\ \E text \in XmlTexts :
          /\ xmlText' = text
          /\ episodes' = EpisodesOfText(text)
    /\ epPc' = "done"
    /\ UNCHANGED <<apiKey, appVars, indexVars, llmVars, serverVars, feedUrl, tried>>

(***************************************************************************)
(* src/services/geminiService.ts: fetchFearAndGreedIndex                   *)
(***************************************************************************)

\* new Date().toISOString() at lines 314 and 326
NowIso == "2026-11-02T00:00:00.000Z"

\* The fear_and_greed members a response may carry: null, a full record, a record
\* without timestamp, a record with an empty timestamp.
FearAndGreedValues ==
    { JSNull,
      JSObject([score |-> 63, rating |-> "Greed", timestamp |-> "2026-11-01T12:00:00.000Z"]),
      JSObject([score |-> 63, rating |-> "Greed"]),
      JSObject([score |-> 0, rating |-> "Extreme Fear", timestamp |-> ""]) }

\* What response.json() may give (line 306): null, a number, an object without the
\* member, an object with it.
IndexData ==
    { JSNull, JSNumber(42), JSObject([market |-> JSNull]) }
    \cup { JSObject([fear_and_greed |-> v]) : v \in FearAndGreedValues }

NoIndexOutcome == [kind |-> "none", data |-> JSNull]
IndexOutcomes ==
    { [kind |-> "throw", data |-> JSNull] } \cup { [kind |-> "json", data |-> d] : d \in IndexData }

\* ToBoolean of a text or an absent value
TruthyText(x) == x # "" /\ x # Undefined

\* A faulty variant of IndexCatch: the error is passed on, as analyzePodcast passes
\* its error on.
IndexCatchRethrows == Rejected("fetch failed")

\* lines 319-328: the catch block's mock value
IndexCatch == Resolved(JSObject([score |-> 50, rating |-> "Neutral", timestamp |-> NowIso]))

\* lines 308-318
IndexOfData(data) ==
    IF Truthy(data) /\ HasOwn(data, "fear_and_greed") /\ Truthy(Get(data, "fear_and_greed"))
      THEN LET currentData == Get(data, "fear_and_greed")
           IN  Resolved(JSObject(
                   [score |-> Get(currentData, "score"),
                    rating |-> Get(currentData, "rating"),
                    timestamp |-> IF TruthyText(Get(currentData, "timestamp"))
                                    THEN Get(currentData, "timestamp")
                                    ELSE NowIso]))
      ELSE Resolved(JSNull)

IndexIdle ==
    /\ fgPc = "idle"
    /\ fgOut = NoIndexOutcome
    /\ fgRet = NoRet

\* fetchFearAndGreedIndex() up to the await of line 305
FetchFearAndGreedIndex ==
    /\ fgPc = "idle"
    /\ fgPc' = "fetch"
    /\ UNCHANGED <<apiKey, appVars, llmVars, serverVars, feedVars, fgOut, fgRet>>

\* lines 305-328: the fetch and its json() complete, by a value or by an error
IndexAnswers ==
    /\ fgPc = "fetch"
    /\ \E out \in IndexOutcomes :
          /\ fgOut' = out
          /\ fgRet' = (IF out.kind = "throw" THEN IndexCatch ELSE IndexOfData(out.data))
    /\ fgPc' = "done"
    /\ UNCHANGED <<apiKey, appVars, llmVars, serverVars, feedVars>>

(***************************************************************************)
(* src/services/geminiService.ts lines 331-589: the App component          *)
(***************************************************************************)

\* The file reads and analyzePodcast calls the component starts in one run.
MaxRequests == 3

\* selectedEpisodeId undefined, error null, analysisData null.  The analysis of a
\* call is kept with the episode the call was made for.
NoSelection == << >>
NoError == ""
NoAnalysis == [episode |-> << >>, value |-> JSNull]
Uploaded == << "Uploaded Audio" >>

\* lines 344-355: the initial values of the state hooks
AppIdle ==
    /\ app = [episodes |-> << >>, selectedEpisodeId |-> NoSelection,
              analysisData |-> NoAnalysis, sources |-> << >>, isLoading |-> FALSE,
              isRefreshingList |-> FALSE, error |-> NoError, uploadMode |-> FALSE]
    /\ pending = {}
    /\ issued = 0

\* What an LLM call of the component may give: a thrown error, prose without
\* grounding, an object with grounding chunks.
AppOutcomes ==
    { LLMThrows,
      [kind |-> "response", text |-> << "Sorry" >>, chunks |-> << >>],
      [kind |-> "response", text |-> << "{", "eT", "sp", "co", "}" >>,
       chunks |-> << [web |-> TRUE, title |-> "site", uri |-> "https://site"],
                     [web |-> FALSE, title |-> "", uri |-> ""] >>] }

\* The feed texts a refresh may meet: none (the mock list), a feed without items,
\* a feed of one item.
AppFeedTexts ==
    { [kind |-> "empty", items |-> << >>],
      [kind |-> "rss", items |-> << >>],
      [kind |-> "rss", items |-> << UsualItem >>] }

\* The files the upload input may hand over: none, one that is no audio, an audio
\* file, an audio file of more than 25 MB.
Files == {"none", "text", "audio", "audio-large"}

\* handleRefreshEpisodes up to its await (lines 384-387); the mount effect of lines
\* 457-459 makes the first call, the refresh button (disabled while refreshing) the
\* later ones.
RefreshEpisodes ==
    /\ ~app.isRefreshingList
    /\ app' = [app EXCEPT !.isRefreshingList = TRUE]
    /\ UNCHANGED <<apiKey, llmVars, serverVars, feedVars, indexVars, pending, issued>>

\* fetchRecentEpisodes resolves: lines 388-397.
RefreshAnswers ==
    /\ app.isRefreshingList
    /\ \E text \in AppFeedTexts :
         LET newEpisodes == EpisodesOfText(text)
         IN  app' = [app EXCEPT !.episodes = IF Len(newEpisodes) > 0 THEN newEpisodes ELSE @,
                                !.isRefreshingList = FALSE]
    /\ UNCHANGED <<apiKey, llmVars, serverVars, feedVars, indexVars, pending, issued>>

\* lines 371-381: handleSelectEpisode after its await, for the call made for episode.
SelectSettled(a, episode, ret) ==
    LET shown ==
          IF ret.status = "rejected" THEN [a EXCEPT !.error = "analysis error"]
          ELSE IF Truthy(ret.value.f.data)
            THEN [a EXCEPT !.analysisData = [episode |-> episode, value |-> ret.value.f.data],
                           !.sources = ret.value.f.sources]
          ELSE [a EXCEPT !.error = "search found nothing"]
    IN  [shown EXCEPT !.isLoading = FALSE]

\* lines 426-437: reader.onload after its await.
UploadSettled(a, ret) ==
    LET shown ==
          IF ret.status = "rejected" THEN [a EXCEPT !.error = "upload analysis failed"]
          ELSE IF Truthy(ret.value.f.data)
            THEN [a EXCEPT !.analysisData = [episode |-> Uploaded, value |-> ret.value.f.data],
                           !.sources = << >>]
          ELSE [a EXCEPT !.error = "cannot interpret audio"]
    IN  [shown EXCEPT !.isLoading = FALSE]

\* A click on an episode of the list (EpisodeList.tsx lines 63-66): handleSelectEpisode
\* up to its await (lines 357-369).  Without a key analyzePodcast rejects at once
\* and the handler finishes before any other event.
SelectEpisode ==
    /\ issued < MaxRequests
    /\ \E j \in 1..Len(app.episodes) :
         LET episode == app.episodes[j]
             started == [app EXCEPT !.selectedEpisodeId = episode.id,
                                    !.uploadMode = FALSE,
                                    !.analysisData = NoAnalysis,
                                    !.error = NoError,
                                    !.isLoading = TRUE]
         IN  IF apiKey
               THEN /\ app' = started
                    /\ pending' = pending \cup
                          { [id |-> issued + 1, fn |-> "select", stage |-> "analyzing",
                             episode |-> episode.id,
                             query |-> episode.episodeNumber \o << " " >> \o episode.title] }
               ELSE /\ app' = SelectSettled(started, episode.id, PodcastNoKey)
                    /\ pending' = pending
    /\ issued' = issued + 1
    /\ UNCHANGED <<apiKey, llmVars, serverVars, feedVars, indexVars>>

\* The analyzePodcast call of a selection settles: lines 369-381.
SelectAnswers ==
    /\ \E r \in pending, out \in AppOutcomes :
         /\ r.fn = "select"
         /\ app' = SelectSettled(app, r.episode, PodcastAfterCall(out, TRUE))
         /\ pending' = pending \ {r}
    /\ UNCHANGED <<apiKey, llmVars, serverVars, feedVars, indexVars, issued>>

\* lines 494-533: the upload input is rendered.
UploadInputShown ==
    /\ ~app.isLoading
    /\ app.error = NoError
    /\ app.uploadMode
    /\ app.analysisData = NoAnalysis

\* handleFileUpload up to reader.readAsDataURL (lines 400-443); confirmed is the
\* answer to the question of line 410.
FileUpload ==
    /\ UploadInputShown
    /\ issued < MaxRequests
    /\ \E file \in Files, confirmed \in BOOLEAN :
         CASE file = "none" \/ (file = "audio-large" /\ ~confirmed) ->
                UNCHANGED <<app, pending, issued>>
           [] file = "text" ->
                /\ app' = [app EXCEPT !.error = "not an audio file"]
                /\ UNCHANGED <<pending, issued>>
           [] OTHER ->
                /\ app' = [app EXCEPT !.isLoading = TRUE,
                                      !.error = NoError,
                                      !.analysisData = NoAnalysis,
                                      !.selectedEpisodeId = NoSelection]
                /\ pending' = pending \cup
                      { [id |-> issued + 1, fn |-> "upload", stage |-> "reading",
                         episode |-> Uploaded, query |-> Uploaded] }
                /\ issued' = issued + 1
    /\ UNCHANGED <<apiKey, llmVars, serverVars, feedVars, indexVars>>

\* reader.onload up to its await (lines 422-425).
FileLoaded ==
    /\ \E r \in pending :
         /\ r.stage = "reading"
         /\ IF apiKey
              THEN /\ pending' = (pending \ {r}) \cup {[r EXCEPT !.stage = "analyzing"]}
                   /\ app' = app
              ELSE /\ pending' = pending \ {r}
                   /\ app' = UploadSettled(app, PodcastNoKey)
    /\ UNCHANGED <<apiKey, llmVars, serverVars, feedVars, indexVars, issued>>

\* reader.onerror (lines 439-442).
FileReadFails ==
    /\ \E r \in pending :
         /\ r.stage = "reading"
         /\ pending' = pending \ {r}
    /\ app' = [app EXCEPT !.error = "file read failed", !.isLoading = FALSE]
    /\ UNCHANGED <<apiKey, llmVars, serverVars, feedVars, indexVars, issued>>

\* The analyzePodcast call of an upload settles: lines 425-437.
UploadAnswers ==
    /\ \E r \in pending, out \in AppOutcomes :
         /\ r.fn = "upload" /\ r.stage = "analyzing"
         /\ app' = UploadSettled(app, PodcastAfterCall(out, FALSE))
         /\ pending' = pending \ {r}
    /\ UNCHANGED <<apiKey, llmVars, serverVars, feedVars, indexVars, issued>>

\* toggleUploadMode (lines 450-455), the upload button of the list.
ToggleUploadMode ==
    /\ app' = [app EXCEPT !.uploadMode = TRUE,
                          !.selectedEpisodeId = NoSelection,
                          !.analysisData = NoAnalysis]
    /\ app' # app
    /\ UNCHANGED <<apiKey, llmVars, serverVars, feedVars, indexVars, pending, issued>>

\* The button of the error view (lines 502-514).
DismissError ==
    /\ ~app.isLoading /\ app.error # NoError
    /\ app' = [app EXCEPT !.error = NoError]
    /\ UNCHANGED <<apiKey, llmVars, serverVars, feedVars, indexVars, pending, issued>>

InitApp ==
    /\ apiKey \in BOOLEAN
    /\ LLMIdle
    /\ ServerIdle
    /\ FeedIdle
    /\ IndexIdle
    /\ AppIdle

NextApp ==
    \/ RefreshEpisodes \/ RefreshAnswers
    \/ SelectEpisode \/ SelectAnswers
    \/ FileUpload \/ FileLoaded \/ FileReadFails \/ UploadAnswers
    \/ ToggleUploadMode \/ DismissError

SpecApp == InitApp /\ [][NextApp]_vars

InitServer ==
    /\ apiKey \in BOOLEAN
    /\ LLMIdle
    /\ ServerIdle
    /\ FeedIdle
    /\ IndexIdle
    /\ AppIdle

NextServer ==
    \/ GetPttSentiment \/ ListingFails \/ ListingArrives \/ ParseRow \/ RowsDone
    \/ DetailFails \/ DetailArrives \/ PttLLMAnswers
    \/ PostAnalyzeUrl \/ PageFails \/ PageArrives \/ UrlLLMAnswers

SpecServer == InitServer /\ [][NextServer]_vars

(***************************************************************************)
(* Claims about the server's handlers (SpecServer)                         *)
(***************************************************************************)

\* C1: in every run of GET /api/ptt-sentiment at most 3 listing pages are fetched,
\* at most 5 candidates of a listing page get a detail fetch and a classification,
\* and at most 15 posts are returned.
C1_PageAndCandidateCaps ==
    /\ net.listing <= 3
    /\ net.detail <= 5
    /\ net.classified <= 5
    /\ Len(posts) <= 15
    /\ (route = "ptt-sentiment" /\ pc = "responded") => Len(res.body.data) <= 15

\* The run has ended after three listing pages although the third carries a
\* previous-page link, and the third page had six candidates of which five were
\* fetched.
C1_Witness ==
    /\ route = "ptt-sentiment" /\ pc = "responded"
    /\ net.listing = 3
    /\ html.prev # NoHref
    /\ Len(pagePosts) = 6
    /\ net.detail = 5
    /\ Len(posts) = 5

OpinionTypesEnumerated(opinions) ==
    \A n \in 1..Len(opinions) : opinions[n].type \in Sentiments

\* C4 as stated: whatever text the LLM returns, the sentiment of every ForumPost of
\* GET /api/ptt-sentiment, and the sentiment and every opinion type of a successful
\* POST /api/analyze-url, is one of Bullish, Bearish, Neutral.
C4_SentimentsEnumerated ==
    /\ \A n \in 1..Len(posts) : posts[n].sentiment \in Sentiments
    /\ (route = "analyze-url" /\ pc = "responded" /\ res.status = 200) =>
          /\ "sentiment" \in DOMAIN res.body.data
          /\ res.body.data.sentiment \in Sentiments
          /\ "opinions" \in DOMAIN res.body.data
          /\ OpinionTypesEnumerated(res.body.data.opinions)

C6_FetchFailureIs500 ==
    (route = "analyze-url" /\ net.page = 1 /\ net.failed = 1) =>
        /\ pc = "responded"
        /\ res = Fail(500, "Failed to fetch page")

\* The page of an accepted url was fetched and the fetch failed.
C6_Witness ==
    /\ route = "analyze-url" /\ pc = "responded"
    /\ Includes(reqBody.url, << "ptt.cc" >>)
    /\ net.page = 1 /\ net.failed = 1

RowIsTarget(row) == row.anchor /\ Includes(row.title, Marker)
RowIsOther(row) ==
    row.anchor /\ ~Includes(row.title, Marker) /\ pushCountVal(row.nrec) > 20

\* The rows of the listing being processed, as parsed so far.
ParsedRows == [j \in 1..Len(html.rows) |-> ListingRow(currentUrl, j, html.rows[j])]

\* C10: a row whose title has the marker is a candidate of category Target whatever
\* its push count; a row without it is a candidate of category Other exactly when its
\* normalized push count exceeds 20; no other row is a candidate or reaches the result.
C10_CategoryRule ==
    /\ (route = "ptt-sentiment" /\ pc \in {"rows", "detail", "llm"}) =>
          LET kept == SelectSeq(ParsedRows, LAMBDA r : RowIsTarget(r) \/ RowIsOther(r))
          IN  /\ Len(pagePosts) = Len(kept)
              /\ \A n \in 1..Len(kept) :
                    /\ pagePosts[n].link = Origin \o kept[n].href
                    /\ pagePosts[n].category =
                         (IF RowIsTarget(kept[n]) THEN "Target" ELSE "Other")
    /\ \A n \in 1..Len(posts) :
          \/ posts[n].category = "Target" /\ Includes(posts[n].title, Marker)
          \/ /\ posts[n].category = "Other"
             /\ ~Includes(posts[n].title, Marker)
             /\ pushCountVal(posts[n].pushCount) > 20

\* A post without the marker has reached the result as Other, after a row with the
\* marker and a push count that is no number reached it as Target.
C10_Witness ==
    \E n \in 1..Len(posts) : posts[n].category = "Other"

(***************************************************************************)
(* The classifier entry points, each called on its own                     *)
(***************************************************************************)

InitLLM ==
    /\ apiKey \in BOOLEAN
    /\ LLMIdle
    /\ ServerIdle
    /\ FeedIdle
    /\ IndexIdle
    /\ AppIdle

\* analyzeSentimentWithLLM(title, content) up to its first await.
CallLight ==
    /\ llmPc = "idle"
    /\ \E title \in Titles, content \in Contents :
        /\ llmCall' = [fn |-> "light", title |-> title, content |-> content, audio |-> FALSE,
                        sent |-> IF apiKey THEN LightPromptContent(content) ELSE << >>]
        /\ IF apiKey
             THEN llmPc' = "awaiting" /\ llmRet' = llmRet
             ELSE llmPc' = "done" /\ llmRet' = Resolved(LightNoClient(title, content))
    /\ UNCHANGED <<apiKey, appVars, feedVars, indexVars, llmOut, serverVars>>

\* analyzeArticleWithLLM(title, content) up to its first await.
CallDeep ==
    /\ llmPc = "idle"
    /\ \E title \in Titles, content \in Contents :
        llmCall' = [fn |-> "deep", title |-> title, content |-> content, audio |-> FALSE,
                    sent |-> IF apiKey THEN DeepPromptContent(content) ELSE << >>]
    /\ IF apiKey
         THEN llmPc' = "awaiting" /\ llmRet' = llmRet
         ELSE llmPc' = "done" /\ llmRet' = Resolved(DeepNoClient)
    /\ UNCHANGED <<apiKey, appVars, feedVars, indexVars, llmOut, serverVars>>

\* analyzePodcast(query, audioBase64?) up to its first await.
CallPodcast ==
    /\ llmPc = "idle"
    /\ \E query \in Titles, audio \in BOOLEAN :
        llmCall' = [fn |-> "podcast", title |-> query, content |-> << >>, audio |-> audio,
                    sent |-> << >>]
    /\ IF apiKey
         THEN llmPc' = "awaiting" /\ llmRet' = llmRet
         ELSE llmPc' = "done" /\ llmRet' = PodcastNoKey
    /\ UNCHANGED <<apiKey, appVars, feedVars, indexVars, llmOut, serverVars>>

\* generateContent completes: the rest of the entry point runs.
LLMCompletes ==
    /\ llmPc = "awaiting"
    /\ \E out \in LLMOutcomes :
        /\ llmOut' = out
        /\ llmRet' =
             CASE llmCall.fn = "light" ->
                    Resolved(LightAfterCall(llmCall.title, llmCall.content, out))
               [] llmCall.fn = "deep" -> Resolved(DeepAfterCall(out))
               [] OTHER -> PodcastAfterCall(out, ~llmCall.audio)
    /\ llmPc' = "done"
    /\ UNCHANGED <<apiKey, appVars, feedVars, indexVars, llmCall, serverVars>>

NextLLM == CallLight \/ CallDeep \/ CallPodcast \/ LLMCompletes

SpecLLM == InitLLM /\ [][NextLLM]_vars

(***************************************************************************)
(* Claims about the classifier entry points (SpecLLM)                      *)
(***************************************************************************)

LightDone == llmPc = "done" /\ llmCall.fn = "light"
DeepDone == llmPc = "done" /\ llmCall.fn = "deep"
PodcastDone == llmPc = "done" /\ llmCall.fn = "podcast"

\* The LLM call was made and gave no parsed result for one of the reasons the
\* claims list: it threw, its text was empty, or its text was not JSON.
CallThrew == llmOut.kind = "throw"
TextEmpty == llmOut.kind = "response" /\ llmOut.text = << >>
TextUnparsable ==
    llmOut.kind = "response" /\ llmOut.text # << >> /\ ~JSONParses(llmOut.text)

KeywordOnTitle == Resolved(JSObject(analyzeSentimentKeyword(llmCall.title)))

C3_DeepFailureIsNeutral ==
    (DeepDone /\ (~apiKey \/ CallThrew \/ TextEmpty \/ TextUnparsable)) =>
        /\ llmRet.status = "resolved"
        /\ HasOwn(llmRet.value, "sentiment")
        /\ HasOwn(llmRet.value, "opinions")
        /\ HasOwn(llmRet.value, "reason")
        /\ llmRet.value.f.sentiment = "Neutral"
        /\ llmRet.value.f.opinions = << >>
        /\ llmRet.value.f.reason =
             (IF ~apiKey THEN "No API Key"
              ELSE IF CallThrew THEN "Analysis Error"
              ELSE "cannot parse AI response")

\* analyzeArticleWithLLM has completed on a response whose text is not JSON.
C3_Witness == DeepDone /\ apiKey /\ TextUnparsable

\* C8 as stated: with no credential no LLM-backed entry point rejects; each
\* resolves with its fallback.
C8_NoCredentialNeverRejects ==
    (llmPc = "done" /\ ~apiKey) => llmRet.status = "resolved"

\* C9 as stated: when the LLM call throws, no classifier entry point passes the
\* error on to its caller; each resolves with a fallback.
C9_ThrowNeverPropagates ==
    (llmPc = "done" /\ CallThrew) => llmRet.status = "resolved"

(***************************************************************************)
(* The dashboard's two data fetches, each running on its own               *)
(***************************************************************************)

InitFeed ==
    /\ apiKey \in BOOLEAN
    /\ LLMIdle
    /\ ServerIdle
    /\ FeedIdle
    /\ IndexIdle
    /\ AppIdle

NextFeed ==
    \/ FetchRecentEpisodes \/ LookupFails \/ LookupArrives \/ ProxyFails \/ ProxyArrives
    \/ FetchFearAndGreedIndex \/ IndexAnswers

SpecFeed == InitFeed /\ [][NextFeed]_vars

\* C7 as stated: for every outcome of the lookup and of the feed fetch, a well-formed
\* feed with no items included, fetchRecentEpisodes resolves with a list of at least 1
\* and at most 10 episodes.
C7_OneToTenEpisodes ==
    epPc = "done" => (Len(episodes) >= 1 /\ Len(episodes) <= 10)

(***************************************************************************)
(* Further claims about GET /api/ptt-sentiment (SpecServer)                *)
(***************************************************************************)

\* A push-count token that is a decimal numeral: digits only, at least one.
IsNumeral(t) == t # << >> /\ \A n \in 1..Len(t) : t[n] \in Digits

\* C11 as stated: the normalized push count of every display token, a token with a
\* leading minus sign included, is a non-negative integer; the full-house token gives
\* 100, the empty token 0, and every token that is no numeral 0.
C11_PushCountNormalized ==
    \A j \in 1..Len(ParsedRows) :
        LET t == ParsedRows[j].nrec
            v == pushCountVal(t)
        IN  /\ v \in Nat
            /\ (t = << "bao" >>) => v = 100
            /\ (t = << >>) => v = 0
            /\ (~IsNumeral(t) /\ t # << "bao" >>) => v = 0

(***************************************************************************)
(* Further claims about the classifier entry points (SpecLLM)              *)
(***************************************************************************)

\* The places of a text where a term occurs.
Occurrences(text, term) ==
    Cardinality({ n \in 1..(Len(text) - Len(term) + 1) :
                    SubSeq(text, n, n + Len(term) - 1) = term })

RECURSIVE TermOccurrences(_, _)
\* The occurrences of the terms of a list in a text, every occurrence counted.
TermOccurrences(text, terms) ==
    IF terms = << >> THEN 0
    ELSE Occurrences(text, Head(terms)) + TermOccurrences(text, Tail(terms))

SentimentByOccurrences(text) ==
    LET bull == TermOccurrences(toLowerCase(text), BULLISH_KEYWORDS)
        bear == TermOccurrences(toLowerCase(text), BEARISH_KEYWORDS)
    IN  IF bull > bear THEN "Bullish" ELSE IF bear > bull THEN "Bearish" ELSE "Neutral"

\* C12 as stated: analyzeSentimentKeyword returns Bullish for a text with strictly
\* more occurrences of bullish terms than of bearish terms, Bearish for strictly more
\* bearish occurrences, Neutral for equal counts, every occurrence of a term counted.
\* The classifier runs on the title when the LLM call throws, and on the title, a
\* space and the content when there is no client.
C12_KeywordCountsEveryOccurrence ==
    /\ (LightDone /\ apiKey /\ CallThrew) =>
          llmRet.value.f.sentiment = SentimentByOccurrences(llmCall.title)
    /\ (LightDone /\ ~apiKey) =>
          llmRet.value.f.sentiment =
              SentimentByOccurrences(llmCall.title \o << " " >> \o llmCall.content)

(***************************************************************************)
(* Further claims about the server's handlers (SpecServer)                 *)
(***************************************************************************)

\* C13 as stated: no two ForumPosts in the result of one run have the same link,
\* whatever the listing pages and paging links are, a previous-page link that leads
\* back to a page already visited included.
C13_LinksUnique ==
    \A m, n \in 1..Len(posts) : m # n => posts[m].link # posts[n].link

\* The url is one of the target forum: it starts with the forum's origin.
BelongsToForum(url) == Len(url) >= Len(Origin) /\ SubSeq(url, 1, Len(Origin)) = Origin

\* C14 as stated: POST /api/analyze-url fetches a page only for a url of the target
\* forum; a url of another host that has 'ptt.cc' in its path or query is rejected
\* with 400 and never fetched.
C14_OnlyForumUrlsFetched ==
    (route = "analyze-url" /\ ~BelongsToForum(reqBody.url)) =>
        /\ net.page = 0
        /\ pc = "responded"
        /\ res.status = 400

(***************************************************************************)
(* Further claims about fetchRecentEpisodes (SpecFeed)                     *)
(***************************************************************************)

\* The number a field of a YYYY-MM-DD date denotes.
DateField(f) ==
    CASE f = "2026" -> 2026
      [] f = "10" -> 10
      [] f = "11" -> 11
      [] f = "12" -> 12
      [] f = "02" -> 2
      [] f = "30" -> 30

\* A number that grows with the day a YYYY-MM-DD date denotes.
DayNumber(date) == (DateField(date[1]) * 12 + DateField(date[3])) * 31 + DateField(date[5])

\* C15 as stated: fetchRecentEpisodes returns its episodes newest first by date,
\* whatever order the feed lists its items in.
C15_NewestFirst ==
    epPc = "done" =>
        \A m, n \in 1..Len(episodes) :
            m < n => DayNumber(episodes[m].date) >= DayNumber(episodes[n].date)

IndexDone == fgPc = "done"
IndexThrew == fgOut.kind = "throw"
IndexMock == JSObject([score |-> 50, rating |-> "Neutral", timestamp |-> "2026-11-02T00:00:00.000Z"])

\* C16 as stated: fetchFearAndGreedIndex never rejects; when the fetch or the JSON
\* decoding throws it returns the mock {50, Neutral, now}; when the response has no
\* fear_and_greed member it returns null; otherwise it returns the score, rating and
\* timestamp of the response.
C16_IndexAsStated ==
    IndexDone =>
        /\ fgRet.status = "resolved"
        /\ IndexThrew => fgRet.value = IndexMock
        /\ (~IndexThrew /\ ~HasOwn(fgOut.data, "fear_and_greed")) => fgRet.value = JSNull
        /\ (~IndexThrew /\ HasOwn(fgOut.data, "fear_and_greed")) =>
              LET given == Get(fgOut.data, "fear_and_greed")
              IN  fgRet.value = JSObject([score |-> Get(given, "score"),
                                          rating |-> Get(given, "rating"),
                                          timestamp |-> Get(given, "timestamp")])

\* C16 amended: fetchFearAndGreedIndex never rejects; on a throw it returns the mock;
\* when the decoded response is falsy or its fear_and_greed member is absent or falsy
\* it returns null; otherwise it returns the score and rating of the response, with
\* the timestamp of the response when that is a non-empty text and the current time
\* when it is absent or empty.
C16_IndexNullMockOrResponse ==
    IndexDone =>
        /\ fgRet.status = "resolved"
        /\ IndexThrew => fgRet.value = IndexMock
        /\ (~IndexThrew /\ ~HasOwn(fgOut.data, "fear_and_greed")) => fgRet.value = JSNull
        /\ (~IndexThrew /\ HasOwn(fgOut.data, "fear_and_greed")) =>
              LET given == Get(fgOut.data, "fear_and_greed")
              IN  IF given = JSNull THEN fgRet.value = JSNull
                  ELSE /\ fgRet.value.f.score = given.f.score
                       /\ fgRet.value.f.rating = given.f.rating
                       /\ fgRet.value.f.timestamp =
                            (IF "timestamp" \in DOMAIN given.f /\ given.f.timestamp # ""
                               THEN given.f.timestamp
                               ELSE "2026-11-02T00:00:00.000Z")

\* The call has completed on a response whose fear_and_greed record has no timestamp.
C16_Witness ==
    /\ IndexDone
    /\ ~IndexThrew
    /\ HasOwn(fgOut.data, "fear_and_greed")
    /\ Get(fgOut.data, "fear_and_greed") # JSNull
    /\ ~HasOwn(Get(fgOut.data, "fear_and_greed"), "timestamp")
    /\ fgRet.value.f.score = 63

\* The items of the delivered feed that fetchRecentEpisodes reads.
ItemsRead == SubSeq(xmlText.items, 1, Min(Len(xmlText.items), 10))

\* C17 as stated: an item whose publish date is present but unparsable gets the
\* current date, and the other items of the feed are still returned with their own
\* data.
C17_BadDateGetsToday ==
    (epPc = "done" /\ xmlText.kind = "rss") =>
        \A j \in 1..Len(ItemsRead) :
            (ItemsRead[j].pubDate # << >> /\ NewDate(ItemsRead[j].pubDate) = InvalidDate) =>
                /\ Len(episodes) = Len(ItemsRead)
                /\ episodes[j].date = << "2026", "-", "11", "-", "02" >>
                /\ \A n \in 1..Len(ItemsRead) : episodes[n].title = ItemsRead[n].title

\* C18: fetchRecentEpisodes tries the feed proxies in their fixed list order; a later
\* proxy is tried only in the step in which the fetch through the proxy before it has
\* failed; once a proxy has delivered a text no further proxy is tried; when the last
\* proxy has failed the run ends and yields the mock list.
C18_ProxiesInOrder ==
    [][ /\ tried' # tried =>
              /\ tried' = Append(tried, tried'[Len(tried')])
              /\ Len(tried') <= 2
              /\ tried'[Len(tried')][1] =
                   (IF Len(tried') = 1 THEN "https://api.allorigins.win/raw?url="
                    ELSE "https://corsproxy.io/?")
              /\ tried # << >> => (ProxyFails /\ xmlText = NoText)
        /\ xmlText # NoText => tried' = tried
        /\ (epPc = "proxy" /\ epPc' = "done" /\ xmlText' = NoText) =>
              /\ Len(tried) = 2
              /\ ProxyFails
              /\ episodes' = MockEpisodes
      ]_vars

\* The second proxy was tried after the first had failed, and it delivered the feed.
C18_Witness ==
    /\ epPc = "done"
    /\ Len(tried) = 2
    /\ xmlText.kind = "rss"
    /\ Len(episodes) = 10

(***************************************************************************)
(* Claims about the order of the steps of GET /api/ptt-sentiment           *)
(* (SpecServer)                                                            *)
(***************************************************************************)

Running == route = "ptt-sentiment" /\ pc # "responded"

C20_OneCallAtATime ==
    route = "ptt-sentiment" =>
        /\ net.open <= 1
        /\ (net.open = 1) <=> (pc \in {"listing", "detail", "llm"})
        /\ (pc \in {"detail", "llm"}) =>
              /\ net.detail = cand
              /\ net.appended = cand - 1
              /\ net.classified <= net.appended + (IF pc = "llm" THEN 1 ELSE 0)
        /\ (pc = "listing" /\ loopI > 0) =>
              /\ net.appended = Len(postsToAnalyze)
              /\ net.detail = Len(postsToAnalyze)
        /\ (pc = "responded" /\ html # NoHtml) => net.appended = Len(postsToAnalyze)

\* The third listing fetch is outstanding after five candidates of the second page
\* were fetched, classified and appended one after the other.
C20_Witness ==
    /\ route = "ptt-sentiment" /\ pc = "listing"
    /\ loopI = 2
    /\ net.open = 1
    /\ net.appended = 5
    /\ net.llm = 5

\* ---------------------------------------------------------------------------
\* C21: a result's stockId is the first run of exactly four digits of its title
\* that is neither part of a longer run of digits nor next to an ASCII letter,
\* digit or underscore, and null when the title has no such run.
AsciiWord == Digits \cup {"R", "e", "E", "P", "X", "_"}

IsDigitRun(s, a, b) ==
    /\ a <= b
    /\ \A m \in a..b : s[m] \in Digits
    /\ (a = 1 \/ s[a - 1] \notin Digits)
    /\ (b = Len(s) \/ s[b + 1] \notin Digits)

StandaloneRun(s, a) ==
    /\ a + 3 <= Len(s)
    /\ IsDigitRun(s, a, a + 3)
    /\ (a = 1 \/ s[a - 1] \notin AsciiWord)
    /\ (a + 3 = Len(s) \/ s[a + 4] \notin AsciiWord)

FirstStandaloneRun(s) ==
    LET starts == {a \in 1..Len(s) : StandaloneRun(s, a)}
    IN  IF starts = {} THEN NoStockId
        ELSE LET a == CHOOSE a \in starts : \A b \in starts : a <= b
             IN  SubSeq(s, a, a + 3)

C21_StockIdIsFirstStandaloneRun ==
    /\ \A m \in 1..Len(posts) : posts[m].stockId = FirstStandaloneRun(posts[m].title)
    /\ FirstStandaloneRun(RowTitle("target")) = << "2", "3", "3", "0" >>

C21_Witness ==
    /\ pc = "responded"
    /\ \E m \in 1..Len(posts) :
         /\ posts[m].title = RowTitle("runs")
         /\ posts[m].stockId = << "2", "4", "5", "4" >>

\* ---------------------------------------------------------------------------
\* C22: for each of the first 10 items of a feed whose episodes are returned, the
\* episodeNumber is "EP" followed by the digits of the first EP<digits> in the title
\* (in either case), else "EP" followed by the item's non-empty episode element, else
\* "EP" followed by the number of items of the feed minus the item's position from 0;
\* the id of every returned episode equals its episodeNumber.
NumberInTitle(title) ==
    LET starts == {p \in 1..(Len(title) - 2) :
                     /\ title[p] \in {"E", "e"}
                     /\ title[p + 1] \in {"P", "p"}
                     /\ title[p + 2] \in Digits}
    IN  IF starts = {} THEN << >>
        ELSE LET p == CHOOSE p \in starts : \A q \in starts : p <= q
                 last == CHOOSE b \in (p + 2)..Len(title) :
                            /\ \A m \in (p + 2)..b : title[m] \in Digits
                            /\ (b = Len(title) \/ title[b + 1] \notin Digits)
             IN  SubSeq(title, p + 2, last)

ExpectedEpisodeNumber(items, position) ==
    LET item == items[position + 1]
    IN  << "E", "P" >> \o
          (CASE NumberInTitle(item.title) # << >> -> NumberInTitle(item.title)
             [] NumberInTitle(item.title) = << >> /\ item.episode # << >> -> item.episode
             [] OTHER -> DecimalText(Len(items) - position))

FeedReturned ==
    /\ epPc = "done"
    /\ xmlText.kind = "rss"
    /\ \A j \in 1..Len(ItemsRead) : ~DateThrows(ItemsRead[j])

C22_EpisodeNumberFromTitleFieldOrPosition ==
    /\ epPc = "done" => \A j \in 1..Len(episodes) : episodes[j].id = episodes[j].episodeNumber
    /\ FeedReturned =>
         /\ Len(episodes) = Len(ItemsRead)
         /\ \A j \in 1..Len(ItemsRead) :
              episodes[j].episodeNumber = ExpectedEpisodeNumber(xmlText.items, j - 1)

C22_Witness ==
    /\ FeedReturned
    /\ Len(xmlText.items) = 11
    /\ xmlText.items[3] = FeedItem(<< "t" >>, UsualDate, << >>)
    /\ episodes[3].id = << "E", "P", "9" >>
    /\ episodes[1].id = << "E", "P", "5", "3", "1" >>

(***************************************************************************)
(* Further claims about the classifiers' entry points (SpecLLM)            *)
(***************************************************************************)

Truncated(content, budget) ==
    SubSeq(content, 1, IF Len(content) < budget THEN Len(content) ELSE budget)

\* C23 as stated: the content a classifier processes is cut to a fixed budget on
\* every path, 2000 characters for the lightweight classifier and 5000 for the deep
\* one, the path on which there is no LLM client and the keyword classifier runs
\* instead included.
C23_ContentTruncatedOnEveryPath ==
    /\ (llmCall.fn = "light" /\ apiKey) => llmCall.sent = Truncated(llmCall.content, 2000)
    /\ (llmCall.fn = "deep" /\ apiKey) => llmCall.sent = Truncated(llmCall.content, 5000)
    /\ (LightDone /\ ~apiKey) =>
          llmRet = Resolved(JSObject(analyzeSentimentKeyword(
                       llmCall.title \o << " " >> \o Truncated(llmCall.content, 2000))))

\* What holds of the paths that call the LLM.
C23_PromptContentTruncated ==
    /\ (llmCall.fn = "light" /\ apiKey) => llmCall.sent = Truncated(llmCall.content, 2000)
    /\ (llmCall.fn = "deep" /\ apiKey) => llmCall.sent = Truncated(llmCall.content, 5000)

\* ---------------------------------------------------------------------------
\* C24: when analyzePodcast's LLM call returns and the text is empty, or is no JSON
\* (in search mode: after the fence markers are removed and the text is cut from its
\* first "{" to its last "}"), analyzePodcast resolves, with data null and with the
\* response's web grounding chunks as sources, in their order.
RECURSIVE WebSourcesOf(_)
WebSourcesOf(chunks) ==
    IF chunks = << >> THEN << >>
    ELSE (IF Head(chunks).web
            THEN << [title |-> Head(chunks).title, uri |-> Head(chunks).uri] >>
            ELSE << >>) \o WebSourcesOf(Tail(chunks))

PodcastTextUnusable ==
    /\ llmOut.kind = "response"
    /\ \/ llmOut.text = << >>
       \/ llmCall.audio /\ ~JSONParses(llmOut.text)
       \/ ~llmCall.audio /\ ~JSONParses(CleanSearchText(llmOut.text))

C24_UnusableTextGivesNullDataAndSources ==
    (PodcastDone /\ apiKey /\ PodcastTextUnusable) =>
        /\ llmRet.status = "resolved"
        /\ llmRet.value.f.data = JSNull
        /\ llmRet.value.f.sources = WebSourcesOf(llmOut.chunks)

C24_Witness ==
    /\ PodcastDone /\ apiKey /\ PodcastTextUnusable
    /\ ~llmCall.audio
    /\ llmOut.text = << "Sorry" >>
    /\ Len(llmOut.chunks) = 2
    /\ llmRet.value.f.data = JSNull
    /\ Len(llmRet.value.f.sources) = 1

(***************************************************************************)
(* Further claims about GET /api/ptt-sentiment (SpecServer)                *)
(***************************************************************************)

\* The step in which the detail fetch of the current candidate ends in failure.
DetailFetchFailsStep ==
    /\ route = "ptt-sentiment" /\ pc = "detail"
    /\ net'.failed = net.failed + 1

\* C25: when the detail page of a retained candidate cannot be fetched, the candidate
\* is appended to the result with sentiment Neutral and the reason "cannot read the
\* content", no classification (LLM or keyword) is made for it, it stays one of the
\* at most 5 candidates of its page, and the run goes on: with the next candidate's
\* detail fetch, or, after the page's last candidate, with the next listing page or
\* the response of status 200.
C25_UnreadDetailStillAppended ==
    [][DetailFetchFailsStep =>
         /\ Len(posts') = Len(posts) + 1
         /\ SubSeq(posts', 1, Len(posts)) = posts
         /\ posts'[Len(posts')].link = postsToAnalyze[cand].link
         /\ posts'[Len(posts')].title = postsToAnalyze[cand].title
         /\ posts'[Len(posts')].sentiment = "Neutral"
         /\ posts'[Len(posts')].reason = "cannot read the content"
         /\ net'.classified = net.classified
         /\ net'.llm = net.llm
         /\ llmVars' = llmVars
         /\ postsToAnalyze' = postsToAnalyze
         /\ Len(postsToAnalyze) <= 5
         /\ net'.appended = net.appended + 1
         /\ net'.appended <= 5
         /\ IF cand < Len(postsToAnalyze)
              THEN /\ pc' = "detail"
                   /\ cand' = cand + 1
                   /\ net'.detail = net.detail + 1
              ELSE \/ pc' = "listing" /\ net'.listing = net.listing + 1
                   \/ pc' = "responded" /\ res'.status = 200 /\ res'.body.data = posts'
    ]_vars

\* The page had six candidates: five were appended, the second of them unread, and
\* the run has responded.
C25_Witness ==
    /\ route = "ptt-sentiment" /\ pc = "responded"
    /\ net.failed = 1
    /\ Len(pagePosts) = 6
    /\ Len(posts) = 5
    /\ posts[2].reason = "cannot read the content"
    /\ posts[2].sentiment = "Neutral"
    /\ posts[3].reason # "cannot read the content"
    /\ net.classified = 4
    /\ res.status = 200

\* The step in which a listing fetch ends in failure.
ListingFetchFailsStep ==
    /\ route = "ptt-sentiment" /\ pc = "listing"
    /\ net'.failed = net.failed + 1

\* C26: a failed listing fetch never makes the run answer with status 500: the run
\* ends with status 200 and success true, and its data are exactly the posts
\* collected before the failure, the empty list when the first page's fetch fails.
C26_ListingFailureIsPartialSuccess ==
    /\ [](route = "ptt-sentiment" => res.status # 500)
    /\ [][ListingFetchFailsStep =>
            /\ pc' = "responded"
            /\ res'.status = 200
            /\ res'.body.success
            /\ res'.body.data = posts
            /\ posts' = posts
            /\ (net.listing = 1 => res'.body.data = << >>)
       ]_vars

\* The fetch of the second listing page failed after the first page gave five posts.
C26_Witness ==
    /\ route = "ptt-sentiment" /\ pc = "responded"
    /\ net.listing = 2
    /\ net.failed = 1
    /\ html = NoHtml
    /\ Len(posts) = 5
    /\ res = Ok(posts)

\* The listing page and the row of a post, read from its link.
LinkPage(link) == IF link[5] = "" THEN 0 ELSE DigitValue(link[5])
LinkRow(link) == DigitValue(link[7])

\* C27: the result is in processing order.  No step removes, moves or changes a post
\* of the result, a step adds at most one post, adds it at the end, and the post is
\* one of the listing page being processed in that step (so the posts of a page
\* fetched earlier precede those of a page fetched later); the posts appended for the
\* current page are the page's first candidates in their row order.
C27_ResultInProcessingOrder ==
    /\ [][/\ Len(posts') \in {Len(posts), Len(posts) + 1}
          /\ SubSeq(posts', 1, Len(posts)) = posts
          /\ Len(posts') = Len(posts) + 1 =>
                /\ LinkPage(posts'[Len(posts')].link) = LinkPage(currentUrl)
                /\ posts'[Len(posts')].link = postsToAnalyze[cand].link
                /\ net.listing = loopI + 1]_vars
    /\ [](route = "ptt-sentiment" =>
            /\ net.appended <= Len(posts)
            /\ net.appended <= Len(postsToAnalyze)
            /\ \A j \in 1..net.appended :
                 posts[Len(posts) - net.appended + j].link = postsToAnalyze[j].link
            /\ \A a, b \in 1..Len(postsToAnalyze) :
                 a < b => LinkRow(postsToAnalyze[a].link) < LinkRow(postsToAnalyze[b].link)
            /\ (pc = "responded" => res.body.data = posts))

\* Two pages gave posts: the first page's rows 1 and 3 (row 2 was not retained),
\* then the second page's row 1.
C27_Witness ==
    /\ route = "ptt-sentiment" /\ pc = "responded"
    /\ Len(posts) = 3
    /\ LinkPage(posts[1].link) = 0 /\ LinkRow(posts[1].link) = 1
    /\ LinkPage(posts[2].link) = 0 /\ LinkRow(posts[2].link) = 3
    /\ LinkPage(posts[3].link) = 1 /\ LinkRow(posts[3].link) = 1

(***************************************************************************)
(* Further claims about POST /api/analyze-url (SpecServer)                 *)
(***************************************************************************)

\* C28 as stated: in every successful response of POST /api/analyze-url the title is
\* the title extracted from the fetched page, or "Unknown Title" when both selectors
\* miss, whatever members the parsed LLM response has: a title member of the LLM's
\* response does not replace it.
C28_TitleIsPageTitle ==
    (route = "analyze-url" /\ pc = "responded" /\ res.status = 200) =>
        /\ res.body.data.title = pageTitle
        /\ pageTitle \in {<< "R", "e" >>, << "x" >>, << "Unknown Title" >>}

(***************************************************************************)
(* Claims about the App component (SpecApp)                                *)
(***************************************************************************)

\* The analyzePodcast calls that are outstanding.
Outstanding == {r \in pending : r.stage = "analyzing"}

\* C29 as stated: whatever episodes are selected and in whatever order the
\* analyzePodcast responses arrive, once no request is outstanding the analysis
\* shown is the one of the selected episode: the response for an episode that is no
\* longer selected never takes the place of the analysis displayed.
C29_ShownAnalysisIsOfSelectedEpisode ==
    (pending = {} /\ app.selectedEpisodeId # NoSelection /\ app.analysisData # NoAnalysis) =>
        app.analysisData.episode = app.selectedEpisodeId

\* C30 as stated: isLoading is true in every state in which an analyzePodcast request
\* started by handleSelectEpisode or handleFileUpload is outstanding, and false once
\* all of them have completed.
C30_LoadingWhileOutstanding ==
    /\ Outstanding # {} => app.isLoading
    /\ pending = {} => ~app.isLoading

====
